---------------------------- MODULE Spec2Model ----------------------------
(***************************************************************************)
(* Transcrib8 backend: the note-synthesis pipeline of backend/notes.py.    *)
(*                                                                         *)
(* Text is a sequence of one-character strings, so that slicing, stripping *)
(* and splitting are computed the way Python computes them.  A JSON value  *)
(* is a tagged record (JStr, JNum, JList, JObj, ...).                      *)
(***************************************************************************)
EXTENDS Integers, Sequences, FiniteSets, TLC

(***************************************************************************)
(* Characters and Python's string methods                                  *)
(***************************************************************************)

\* A string literal as a sequence of characters.
Chars(s) == [i \in 1..Len(s) |-> SubSeq(s, i, i)]

\* U+2014 EM DASH, one character.
EmDash == "U+2014"

\* The whitespace characters of the model's alphabet (str.strip, str.split).
WS == {" ", "\t", "\n", "\r"}

UpperCase == Chars("ABCDEFGHIJKLMNOPQRSTUVWXYZ")
LowerCase == Chars("abcdefghijklmnopqrstuvwxyz")

\* str.lower of one character.
LowerChar(c) ==
    IF \E i \in 1..26 : UpperCase[i] = c
    THEN LowerCase[CHOOSE i \in 1..26 : UpperCase[i] = c]
    ELSE c

\* str.lower
lower(s) == [i \in 1..Len(s) |-> LowerChar(s[i])]

\* s[:n] for n >= 0
Prefix(s, n) == SubSeq(s, 1, IF n < Len(s) THEN n ELSE Len(s))

\* s[n:] for n >= 0 (0-based n)
Suffix(s, n) == SubSeq(s, n + 1, Len(s))

\* str.startswith
startswith(s, p) == Len(p) <= Len(s) /\ SubSeq(s, 1, Len(p)) = p

\* The indices of s that hold a character outside `drop`.
Kept(s, drop) == {i \in 1..Len(s) : s[i] \notin drop}

\* str.strip(chars): drop the characters of `drop` from both ends.
strip_chars(s, drop) ==
    LET kept == Kept(s, drop)
    IN IF kept = {}
       THEN <<>>
       ELSE SubSeq(s, CHOOSE i \in kept : \A j \in kept : i <= j,
                      CHOOSE i \in kept : \A j \in kept : j <= i)

\* str.strip()
strip(s) == strip_chars(s, WS)

\* The concatenation of parts[lo..hi], halving the range.
RECURSIVE ConcatRange(_, _, _)
ConcatRange(parts, lo, hi) ==
    IF lo > hi THEN <<>>
    ELSE IF lo = hi THEN parts[lo]
    ELSE LET mid == (lo + hi) \div 2
         IN ConcatRange(parts, lo, mid) \o ConcatRange(parts, mid + 1, hi)

Concat(parts) == ConcatRange(parts, 1, Len(parts))

\* The pieces of a text, given those of its two halves: the last piece of the
\* left half and the first of the right half are one piece.
Glue(left, right) ==
    SubSeq(left, 1, Len(left) - 1)
    \o << left[Len(left)] \o right[1] >>
    \o SubSeq(right, 2, Len(right))

\* The pieces of s[lo..hi] between the characters of `seps`, empty pieces kept
\* (halving the range; each half is computed once).
RECURSIVE SplitRange(_, _, _, _)
SplitRange(s, seps, lo, hi) ==
    IF lo > hi THEN << <<>> >>
    ELSE IF lo = hi THEN (IF s[lo] \in seps THEN << <<>>, <<>> >> ELSE << <<s[lo]>> >>)
    ELSE LET mid == (lo + hi) \div 2
         IN CHOOSE pieces \in { Glue(left, right) :
                                  left \in {SplitRange(s, seps, lo, mid)},
                                  right \in {SplitRange(s, seps, mid + 1, hi)} } : TRUE

NonEmpty(piece) == piece # <<>>

\* str.split(): the maximal runs of non-whitespace.
split_ws(s) == SelectSeq(SplitRange(s, WS, 1, Len(s)), NonEmpty)

\* str.split(sep) for a one-character separator: empty pieces are kept.
split_char(s, sep) == SplitRange(s, {sep}, 1, Len(s))

\* str.splitlines(): breaks at \n, \r and \r\n; no empty piece after a final break.
splitlines(s) ==
    LET \* the \n of a \r\n belongs to the break the \r makes
        marked == [i \in 1..Len(s) |->
                      IF s[i] = "\n" /\ i > 1 /\ s[i - 1] = "\r" THEN <<>> ELSE <<s[i]>>]
        t == Concat(marked)
        pieces == SplitRange(t, {"\n", "\r"}, 1, Len(t))
    IN IF pieces[Len(pieces)] = <<>> THEN SubSeq(pieces, 1, Len(pieces) - 1) ELSE pieces

\* sep.join(parts)
join(sep, parts) ==
    Concat([i \in 1..(2 * Len(parts) - 1) |-> IF i % 2 = 1 THEN parts[(i + 1) \div 2] ELSE sep])

\* str.replace(c, by) for a one-character c.
replace_char(s, c, by) == Concat([i \in 1..Len(s) |-> IF s[i] = c THEN by ELSE <<s[i]>>])

\* str.find(p, i - 1) + 1: the first 1-based index >= i where p occurs, 0 if none.
FindFrom(s, p, i) ==
    LET at == {k \in i..(Len(s) - Len(p) + 1) : SubSeq(s, k, k + Len(p) - 1) = p}
    IN IF at = {} THEN 0 ELSE CHOOSE k \in at : \A j \in at : k <= j

\* The decimal digits of a natural number (str(n)).
Digit == Chars("0123456789")
RECURSIVE str_int(_)
str_int(n) == IF n < 10 THEN <<Digit[n + 1]>> ELSE str_int(n \div 10) \o <<Digit[(n % 10) + 1]>>

Min2(a, b) == IF a < b THEN a ELSE b
Max2(a, b) == IF a > b THEN a ELSE b


(***************************************************************************)
(* JSON values (what json.loads returns and json.dumps serialises)         *)
(***************************************************************************)

JStr(s) == [t |-> "str", s |-> s]
JNum(n) == [t |-> "num", n |-> n]
JBool(b) == [t |-> "bool", b |-> b]
JNull == [t |-> "null"]
JList(l) == [t |-> "list", l |-> l]
\* An object: o is a function from its keys to JSON values.
JObj(o) == [t |-> "obj", o |-> o]

(***************************************************************************)
(* Constants of notes.py                                                   *)
(***************************************************************************)

\* generate_structured_notes: a stripped transcript shorter than this is trivial.
MIN_TRANSCRIPT_CHARS == 80
\* _dedupe_lines: the normalized key is cut to this many characters.
DEDUPE_KEY_CHARS == 200
\* generate_simple_notes: a sentence must be longer than this.
MIN_SENTENCE_CHARS == 40
\* generate_simple_notes: sentences[::3]
KEY_POINT_STRIDE == 3
\* generate_simple_notes: [:10]
MAX_KEY_POINTS == 10
\* generate_simple_notes: kp[:120], kp[:90], key_points[:8]
EXPLANATION_CHARS == 120
REASON_CHARS == 90
MAX_FALLBACK_BUBBLES == 8
\* importance given by generate_simple_notes, _extract_bubbles_from_text and
\* the default of the normalisation
DEFAULT_IMPORTANCE == 3
MIN_IMPORTANCE == 1
MAX_IMPORTANCE == 5
\* _extract_bubbles_from_text: stop at this many bubbles.
MAX_EXTRACTED_BUBBLES == 12

TOO_SHORT == Chars("Transcript too short to generate meaningful notes.")
FALLBACK_SUMMARY == Chars("Fallback notes (AI unavailable).")
JSON_PARSING_FAILED == Chars("JSON parsing failed")

(***************************************************************************)
(* State                                                                   *)
(***************************************************************************)

VARIABLES
    CHUNK_CHAR_LIMIT,   \* notes.py:50, read from NOTES_CHUNK_CHAR_LIMIT at import
    MAX_CHUNKS,         \* notes.py:51, read from NOTES_MAX_CHUNKS at import
    transcript,         \* generate_structured_notes / generate_simple_notes argument
    title,              \* argument
    format_type,        \* argument
    api_key,            \* argument: the key, or None
    pc,                 \* where the invocation stands
    chunks,             \* notes.py:181
    summaries,          \* notes.py:184, the summaries obtained so far
    condensed,          \* notes.py:182/193, the working text
    prompt,             \* notes.py:199/201
    output,             \* notes.py:216
    result,             \* what the invocation returned (or raised)
    pending,            \* the external call in flight, or None
    calls,              \* every external call issued, in order
    failed,             \* an external call has failed
    trace,              \* the synthesizer states visited, in order
    lines,              \* _dedupe_lines: its argument
    once,               \* _dedupe_lines(lines)
    twice,              \* _dedupe_lines(_dedupe_lines(lines))
    request,            \* app.py: the HTTP request a handler is given
    response            \* app.py: the (body, status) a handler returned

vars == <<CHUNK_CHAR_LIMIT, MAX_CHUNKS, transcript, title, format_type, api_key, pc,
          chunks, summaries, condensed, prompt, output, result, pending, calls,
          failed, trace, lines, once, twice, request, response>>

\* Python's None
None == [t |-> "None"]

(***************************************************************************)
(* _chunk_transcript (notes.py:107-116)                                    *)
(***************************************************************************)

\* A chunking loop whose bound lets the index reach the end of the text
\* (range(0, len(transcript) + 1, CHUNK_CHAR_LIMIT)).
RECURSIVE ChunkLoopInclusive(_, _, _, _, _)
ChunkLoopInclusive(text, limit, max_chunks, i, acc) ==
    IF i > Len(text) \/ Len(acc) >= max_chunks
    THEN acc
    ELSE ChunkLoopInclusive(text, limit, max_chunks, i + limit,
                            Append(acc, SubSeq(text, i + 1, Min2(i + limit, Len(text)))))

\* The for loop: i is the 0-based offset range() yields next.
RECURSIVE ChunkLoop(_, _, _, _, _)
ChunkLoop(text, limit, max_chunks, i, acc) ==
    IF i >= Len(text) \/ Len(acc) >= max_chunks
    THEN acc
    ELSE ChunkLoop(text, limit, max_chunks, i + limit,
                   Append(acc, SubSeq(text, i + 1, Min2(i + limit, Len(text)))))

_chunk_transcript(text) ==
    IF Len(text) <= CHUNK_CHAR_LIMIT
    THEN <<text>>
    ELSE ChunkLoop(text, CHUNK_CHAR_LIMIT, MAX_CHUNKS, 0, <<>>)

(***************************************************************************)
(* _dedupe_lines (notes.py:118-127)                                        *)
(***************************************************************************)

\* A key that forgets .lower().
norm_key_case_sensitive(line) == Prefix(join(<<" ">>, split_ws(line)), DEDUPE_KEY_CHARS)

\* " ".join(line.lower().split())[:200]
norm_key(line) == Prefix(join(<<" ">>, split_ws(lower(line))), DEDUPE_KEY_CHARS)

\* A dedupe loop with the membership test inverted: it keeps the repeats.
RECURSIVE DedupeLoopKeepsRepeats(_, _, _, _)
DedupeLoopKeepsRepeats(ls, i, seen, out) ==
    IF i > Len(ls)
    THEN out
    ELSE LET norm == norm_key(ls[i])
         IN IF norm # <<>> /\ norm \in seen
            THEN DedupeLoopKeepsRepeats(ls, i + 1, seen, Append(out, ls[i]))
            ELSE DedupeLoopKeepsRepeats(ls, i + 1, seen \cup {norm}, out)

RECURSIVE DedupeLoop(_, _, _, _)
DedupeLoop(ls, i, seen, out) ==
    IF i > Len(ls)
    THEN out
    ELSE LET norm == norm_key(ls[i])
         IN IF norm # <<>> /\ norm \notin seen
            THEN DedupeLoop(ls, i + 1, seen \cup {norm}, Append(out, ls[i]))
            ELSE DedupeLoop(ls, i + 1, seen, out)

_dedupe_lines(ls) == DedupeLoop(ls, 1, {}, <<>>)

(***************************************************************************)
(* generate_simple_notes (notes.py:255-290)                                *)
(***************************************************************************)

\* A returned str: plain text, or the text json.dumps(value, indent=2) makes.
Text(s) == [kind |-> "text", text |-> s]
json_dumps(v) == [kind |-> "json", value |-> v]

\* format_type.lower() == "json"
is_json(fmt) == lower(Chars(fmt)) = Chars("json")

\* s.strip() and len(s.strip()) > 40, of a stripped s
LongEnough(s) == s # <<>> /\ Len(s) > MIN_SENTENCE_CHARS

\* transcript.replace(".", ".\n").split("\n"), then
\* [s.strip() for s in sentences if s.strip() and len(s.strip()) > 40]
sentences_of(text) ==
    LET pieces == split_char(replace_char(text, ".", <<".", "\n">>), "\n")
    IN SelectSeq([i \in 1..Len(pieces) |-> strip(pieces[i])], LongEnough)

\* s[::3]
every_third(s) ==
    [k \in 1..((Len(s) + KEY_POINT_STRIDE - 1) \div KEY_POINT_STRIDE)
        |-> s[KEY_POINT_STRIDE * (k - 1) + 1]]

\* The two slices in the other order: sentences[:10][::3]
key_points_capped_first(text) == every_third(Prefix(sentences_of(text), MAX_KEY_POINTS))

\* sentences[::3][:10]
key_points_of(text) == Prefix(every_third(sentences_of(text)), MAX_KEY_POINTS)

simple_notes_json(text, ttl) ==
    LET key_points == key_points_of(text)
    IN json_dumps(JObj([
        title |-> JStr(ttl),
        summary |-> JStr(FALLBACK_SUMMARY),
        key_concepts |-> JList([i \in 1..Len(key_points) |->
            JObj([term |-> JStr(Chars("Point ") \o str_int(i)),
                  explanation |-> JStr(Prefix(key_points[i], EXPLANATION_CHARS))])]),
        important_details |-> JList([i \in 1..Len(Prefix(key_points, MAX_KEY_POINTS)) |->
            JStr(key_points[i])]),
        study_questions |-> JList(<<>>),
        mindmap_bubbles |-> JList([i \in 1..Len(Prefix(key_points, MAX_FALLBACK_BUBBLES)) |->
            JObj([concept |-> JStr(Chars("Concept ") \o str_int(i)),
                  reason |-> JStr(Prefix(key_points[i], REASON_CHARS)),
                  importance |-> JNum(DEFAULT_IMPORTANCE)])]),
        transcript_character_count |-> JNum(Len(text))]))

simple_notes_markdown(text, ttl) ==
    LET key_points == key_points_of(text)
        doc == <<Chars("# ") \o ttl,
                 Chars("## Summary"),
                 FALLBACK_SUMMARY,
                 Chars("## Key Concepts")>>
               \o [i \in 1..Len(key_points) |-> Chars("- ") \o key_points[i]]
               \o <<<<>>, Chars("## Full Transcript"), text>>
    IN Text(join(<<"\n">>, doc))

generate_simple_notes(text, ttl, fmt) ==
    IF is_json(fmt) THEN simple_notes_json(text, ttl) ELSE simple_notes_markdown(text, ttl)

(***************************************************************************)
(* _extract_bubbles_from_text (notes.py:293-340)                           *)
(***************************************************************************)

\* Lines 311-335: concept and reason of a line l that starts with "-".
\* A concept of <<>> stands for both None and "": `if concept:` treats them alike.
parse_bubble_line(l) ==
    LET s == strip(Suffix(l, 1))
    IN IF startswith(s, Chars("**"))
       THEN LET at == FindFrom(s, Chars("**"), 3)     \* s.index("**", 2), 1-based
            IN IF at = 0
               THEN [concept |-> strip(s), reason |-> <<>>]        \* ValueError
               ELSE LET after == strip(Suffix(s, at + 1))          \* s[end+2:]
                    IN [concept |-> strip(SubSeq(s, 3, at - 1)),   \* s[2:end]
                        reason |-> IF startswith(after, <<EmDash>>) \/ startswith(after, <<"-">>)
                                   THEN strip(Suffix(after, 1))
                                   ELSE after]
       ELSE LET at == FindFrom(s, <<EmDash>>, 1)                    \* s.split(EmDash, 1)
            IN IF at # 0
               THEN [concept |-> strip(SubSeq(s, 1, at - 1)), reason |-> strip(Suffix(s, at))]
               ELSE [concept |-> strip(s), reason |-> <<>>]

bubble(concept, reason) ==
    JObj([concept |-> JStr(concept), reason |-> JStr(reason),
          importance |-> JNum(DEFAULT_IMPORTANCE)])

\* A heading test that finds the heading anywhere in the line.
is_bubbles_heading_anywhere(l) == FindFrom(lower(l), Chars("## mindmap bubbles"), 1) # 0

\* Line 303: l.lower().startswith("## mindmap bubbles"), of a stripped line.
is_bubbles_heading(l) == startswith(lower(l), Chars("## mindmap bubbles"))

\* The for loop without the test of line 338: it never stops at 12 bubbles.
RECURSIVE BubbleLoopUncapped(_, _, _, _)
BubbleLoopUncapped(ls, i, in_section, bubbles) ==
    IF i > Len(ls) THEN bubbles
    ELSE LET l == strip(ls[i])
         IN IF ~in_section
            THEN BubbleLoopUncapped(ls, i + 1, is_bubbles_heading(l), bubbles)
            ELSE IF startswith(l, Chars("## ")) \/ startswith(l, Chars("# "))
                 THEN bubbles
                 ELSE IF startswith(l, <<"-">>)
                      THEN LET b == parse_bubble_line(l)
                           IN BubbleLoopUncapped(ls, i + 1, TRUE,
                                  IF b.concept # <<>>
                                  THEN Append(bubbles, bubble(b.concept, b.reason))
                                  ELSE bubbles)
                      ELSE BubbleLoopUncapped(ls, i + 1, TRUE, bubbles)

\* The for loop over the lines; the result is the list of bubbles.
RECURSIVE BubbleLoop(_, _, _, _)
BubbleLoop(ls, i, in_section, bubbles) ==
    IF i > Len(ls) THEN bubbles
    ELSE LET l == strip(ls[i])
         IN IF ~in_section
            THEN BubbleLoop(ls, i + 1, is_bubbles_heading(l), bubbles)
            ELSE IF startswith(l, Chars("## ")) \/ startswith(l, Chars("# "))
                 THEN bubbles
                 ELSE IF startswith(l, <<"-">>)
                      THEN LET b == parse_bubble_line(l)
                               grown == IF b.concept # <<>>
                                        THEN Append(bubbles, bubble(b.concept, b.reason))
                                        ELSE bubbles
                           IN IF Len(grown) >= MAX_EXTRACTED_BUBBLES
                              THEN grown
                              ELSE BubbleLoop(ls, i + 1, TRUE, grown)
                      ELSE BubbleLoop(ls, i + 1, TRUE, bubbles)

_extract_bubbles_from_text(text) == BubbleLoop(splitlines(text), 1, FALSE, <<>>)

(***************************************************************************)
(* Prompt builders (notes.py:54-104) and the chunk summarizer (130-150)    *)
(***************************************************************************)

\* The f-strings of build_prompt and build_json_prompt: the fixed template
\* text is named, the two embedded values are kept.
build_prompt(text, ttl) == [template |-> "markdown", title |-> ttl, transcript |-> text]
build_json_prompt(text, ttl) == [template |-> "json", title |-> ttl, transcript |-> text]

NotBlank(l) == strip(l) # <<>>

\* [l.strip("- ") for l in text.splitlines() if l.strip()]
bullets_of(text) ==
    LET kept == SelectSeq(splitlines(text), NotBlank)
    IN [i \in 1..Len(kept) |-> strip_chars(kept[i], {"-", " "})]

\* "\n".join(f"- {b}" for b in bullets)
bullet_text(bullets) ==
    join(<<"\n">>, [i \in 1..Len(bullets) |-> Chars("- ") \o bullets[i]])

\* Lines 147-150 of _summarize_chunk: the summary made of the reply's content.
summary_of(content) == bullet_text(_dedupe_lines(bullets_of(strip(content))))

\* The call _summarize_chunk issues for chunk idx of total (lines 132-146).
summarize_call(chunk, idx, total) ==
    [fn |-> "summarize", idx |-> idx, total |-> total, chunk |-> chunk]

\* Lines 188-196: the digest that replaces the working text.
condense(sums, text) ==
    LET flat == _dedupe_lines(Concat([i \in 1..Len(sums) |-> bullets_of(sums[i])]))
    IN Chars("SYNTHESIZED BULLET SUMMARIES (original length ") \o str_int(Len(text))
       \o Chars(" chars)\n") \o bullet_text(flat)

(***************************************************************************)
(* Reconciliation of the final reply (notes.py:218-249)                    *)
(***************************************************************************)

\* dict.setdefault(key, default) on a JSON object's o
setdefault(o, key, default) == IF key \in DOMAIN o THEN o ELSE o @@ (key :> default)

IsDigits(s) == s # <<>> /\ \A i \in 1..Len(s) : \E d \in 1..10 : Digit[d] = s[i]

RECURSIVE DigitsValue(_)
DigitsValue(s) ==
    IF s = <<>> THEN 0
    ELSE 10 * DigitsValue(SubSeq(s, 1, Len(s) - 1))
         + (CHOOSE d \in 0..9 : Digit[d + 1] = s[Len(s)])

\* int(v): [ok |-> TRUE, n |-> the integer], or [ok |-> FALSE] when int raises.
py_int(v) ==
    CASE v.t = "num" -> [ok |-> TRUE, n |-> v.n]
      [] v.t = "bool" -> [ok |-> TRUE, n |-> IF v.b THEN 1 ELSE 0]
      [] v.t = "str" ->
            LET s == strip(v.s)
                signed == s # <<>> /\ s[1] \in {"+", "-"}
                digits == IF signed THEN Suffix(s, 1) ELSE s
            IN IF IsDigits(digits)
               THEN [ok |-> TRUE,
                     n |-> IF signed /\ s[1] = "-" THEN 0 - DigitsValue(digits)
                                                   ELSE DigitsValue(digits)]
               ELSE [ok |-> FALSE]
      [] OTHER -> [ok |-> FALSE]

\* Lines 229-234: the importance written back into a bubble b (an object's o).
normal_importance(b) ==
    LET imp == IF "importance" \in DOMAIN b THEN b["importance"] ELSE JNum(DEFAULT_IMPORTANCE)
        got == py_int(imp)
        imp_int == IF got.ok THEN got.n ELSE DEFAULT_IMPORTANCE
    IN Max2(MIN_IMPORTANCE, Min2(MAX_IMPORTANCE, imp_int))

\* Lines 226-234: importance is rewritten in every dict of a list, nothing else.
normalize_bubbles(v) ==
    IF v.t = "list"
    THEN JList([i \in 1..Len(v.l) |->
            IF v.l[i].t = "obj"
            THEN JObj([k \in DOMAIN v.l[i].o \cup {"importance"} |->
                        IF k = "importance" THEN JNum(normal_importance(v.l[i].o))
                                            ELSE v.l[i].o[k]])
            ELSE v.l[i]])
    ELSE v

\* A reconciliation that assigns the three fields instead of defaulting them
\* (data["title"] = title, ...).
normalize_reply_assigned(o, text, ttl) ==
    LET d == [k \in DOMAIN o \cup {"title", "transcript_character_count", "mindmap_bubbles"} |->
                CASE k = "title" -> JStr(ttl)
                  [] k = "transcript_character_count" -> JNum(Len(text))
                  [] k = "mindmap_bubbles" ->
                        (IF k \in DOMAIN o THEN o[k] ELSE JList(<<>>))
                  [] OTHER -> o[k]]
    IN [k \in DOMAIN d |->
          IF k = "mindmap_bubbles" THEN normalize_bubbles(d[k]) ELSE d[k]]

\* Lines 221-235 on the parsed object's o.
normalize_reply(o, text, ttl) ==
    LET d1 == setdefault(o, "title", JStr(ttl))
        d2 == setdefault(d1, "transcript_character_count", JNum(Len(text)))
        d3 == setdefault(d2, "mindmap_bubbles", JList(<<>>))
    IN [k \in DOMAIN d3 |->
          IF k = "mindmap_bubbles" THEN normalize_bubbles(d3[k]) ELSE d3[k]]

\* Lines 238-248: the record returned when json.loads raised JSONDecodeError.
parse_failure(out, text, ttl) ==
    JObj([title |-> JStr(ttl),
          raw_output |-> JStr(out),
          error |-> JStr(JSON_PARSING_FAILED),
          transcript_character_count |-> JNum(Len(text)),
          mindmap_bubbles |-> JList(_extract_bubbles_from_text(out))])

\* json.loads(output): a reply is either text that is not JSON, or the
\* serialisation of a JSON value.
json_loads(out) == IF out.kind = "json" THEN [ok |-> TRUE, value |-> out.value]
                                        ELSE [ok |-> FALSE]

\* A reconciliation that returns a parsed reply that is not an object as it
\* is, instead of failing on its missing setdefault.
reconcile_any_json(out, text, ttl, fmt) ==
    IF is_json(fmt)
    THEN LET data == json_loads(out)
         IN IF data.ok
            THEN IF data.value.t = "obj"
                 THEN [raised |-> FALSE,
                       value |-> json_dumps(JObj(normalize_reply(data.value.o, text, ttl)))]
                 ELSE [raised |-> FALSE, value |-> json_dumps(data.value)]
            ELSE [raised |-> FALSE, value |-> json_dumps(parse_failure(out.text, text, ttl))]
    ELSE [raised |-> FALSE, value |-> out]

\* Lines 218-249: [raised |-> FALSE, value |-> the str returned], or
\* [raised |-> TRUE] when an exception leaves the inner try.
reconcile(out, text, ttl, fmt) ==
    IF is_json(fmt)
    THEN LET data == json_loads(out)
         IN IF data.ok
            THEN IF data.value.t = "obj"
                 THEN [raised |-> FALSE,
                       value |-> json_dumps(JObj(normalize_reply(data.value.o, text, ttl)))]
                 ELSE [raised |-> TRUE]      \* no setdefault: AttributeError
            ELSE [raised |-> FALSE, value |-> json_dumps(parse_failure(out.text, text, ttl))]
    ELSE [raised |-> FALSE, value |-> out]

\* str.strip of a reply's content (line 216).
strip_reply(content) == IF content.kind = "text" THEN Text(strip(content.text)) ELSE content

\* A triviality check that forgets to strip.
is_trivial_unstripped(text) == text = <<>> \/ Len(text) < MIN_TRANSCRIPT_CHARS

\* Lines 160-173.
is_trivial(text) == text = <<>> \/ Len(strip(text)) < MIN_TRANSCRIPT_CHARS

trivial_notes(text, ttl, fmt) ==
    IF is_json(fmt)
    THEN json_dumps(JObj([title |-> JStr(ttl),
                          summary |-> JStr(TOO_SHORT),
                          key_concepts |-> JList(<<>>),
                          important_details |-> JList(<<>>),
                          study_questions |-> JList(<<>>),
                          transcript_character_count |-> JNum(Len(text))]))
    ELSE Text(TOO_SHORT)

(***************************************************************************)
(* Inputs of the model                                                     *)
(***************************************************************************)

\* The chunk limit the model runs with (NOTES_CHUNK_CHAR_LIMIT), and the
\* largest NOTES_MAX_CHUNKS setting it tries.
ChunkLimitSetting == 100
MaxChunksSetting == 3

LECTURE ==
    Chars("Entropy measures the number of microstates of a system. ")
    \o Chars("Heat flows from hot bodies to cold bodies on its own\n")
    \o Chars("Work depends on the path taken between two states. Short one. ")
    \o Chars("The first law says that energy is always conserved. ")
    \o Chars("A Carnot engine is the most efficient heat engine. ")
    \o Chars("Temperature is the average kinetic energy of molecules. ")

\* The first n characters of the lecture, repeated as often as needed.
Lecture(n) == [i \in 1..n |-> LECTURE[((i - 1) % Len(LECTURE)) + 1]]

\* A transcript with whitespace around it.
Padded(text) == Chars("  ") \o text \o Chars("\n ")

Transcripts(limit) ==
    { <<>>,
      Padded(Lecture(MIN_TRANSCRIPT_CHARS - 1)),
      Lecture(MIN_TRANSCRIPT_CHARS),
      Lecture(limit),
      Lecture(limit + 1),
      Lecture(2 * limit + 50) }

Titles == {Chars("Intro")}
Formats == {"markdown", "json"}
KEY == Chars("sk-test")

\* Contents the chunk-summary call may come back with.
SUMMARY_A == Text(Chars("- Entropy rises\n- entropy  RISES\n\n- Heat flows "))
SUMMARY_B == Text(Chars("Heat flows\n- Work is path dependent\n"))
SummaryReplies == {SUMMARY_A, SUMMARY_B, None}

\* Contents the final generation call may come back with.
REPLY_PREAMBLE ==
    Text(Chars("Here are your notes: ## Mindmap Bubbles\n- **Entropy** ")
         \o <<EmDash>> \o Chars(" drives disorder"))
REPLY_MARKDOWN ==
    Text(Chars("\n## Summary\nThermodynamics in brief.\n## Mindmap Bubbles\n- **Entropy** ")
         \o <<EmDash>> \o Chars(" drives disorder\n- Heat ") \o <<EmDash>>
         \o Chars(" flows downhill\n## Study Questions\n- What is entropy?\n  "))
REPLY_EMPTY_OBJECT == json_dumps(JObj(<<>>))
REPLY_FULL ==
    json_dumps(JObj([
        title |-> JStr(Chars("Thermodynamics")),
        summary |-> JStr(Chars("Heat and work.")),
        transcript_character_count |-> JNum(5),
        mindmap_bubbles |-> JList(<<
            JObj([concept |-> JStr(Chars("Entropy")), importance |-> JNum(9)]),
            JObj([concept |-> JStr(Chars("Heat")), importance |-> JNum(0 - 2)]),
            JObj([concept |-> JStr(Chars("Work")), importance |-> JStr(Chars("bad"))]),
            JObj([concept |-> JStr(Chars("Law"))]),
            JStr(Chars("loose")),
            JObj([concept |-> JStr(Chars("Carnot")), importance |-> JStr(Chars("4"))]) >>)]))
REPLY_BUBBLES_OBJECT ==
    json_dumps(JObj([
        mindmap_bubbles |-> JObj([concept |-> JStr(Chars("Entropy")),
                                  importance |-> JNum(9)])]))
REPLY_ARRAY == json_dumps(JList(<<JStr(Chars("Entropy"))>>))
REPLY_NUMBER == json_dumps(JNum(42))
REPLY_STRING == json_dumps(JStr(Chars("Entropy")))
REPLY_TRUE == json_dumps(JBool(TRUE))
REPLY_NULL == json_dumps(JNull)
FinalReplies == {REPLY_PREAMBLE, REPLY_MARKDOWN, REPLY_EMPTY_OBJECT, REPLY_FULL,
                 REPLY_BUBBLES_OBJECT, REPLY_ARRAY, REPLY_NUMBER, REPLY_STRING,
                 REPLY_TRUE, REPLY_NULL, None}

(***************************************************************************)
(* generate_structured_notes (notes.py:153-252), step by step              *)
(***************************************************************************)

\* What an invocation ends with: a returned str, or an exception.
Raised == [kind |-> "raised"]

\* The state before any function has been called.
Idle ==
    /\ chunks = <<>>
    /\ summaries = <<>>
    /\ condensed = <<>>
    /\ prompt = None
    /\ output = None
    /\ result = None
    /\ pending = None
    /\ calls = <<>>
    /\ failed = FALSE
    /\ trace = <<>>
    /\ lines = <<>>
    /\ once = <<>>
    /\ twice = <<>>
    /\ request = None
    /\ response = None

Init ==
    /\ CHUNK_CHAR_LIMIT = ChunkLimitSetting
    /\ MAX_CHUNKS \in 1..MaxChunksSetting
    /\ transcript \in Transcripts(CHUNK_CHAR_LIMIT)
    /\ title \in Titles
    /\ format_type \in Formats
    /\ api_key \in {None, Text(KEY)}
    /\ pc = "start"
    /\ Idle

config == <<CHUNK_CHAR_LIMIT, MAX_CHUNKS>>
args == <<transcript, title, format_type>>
dedupe_vars == <<lines, once, twice>>
http_vars == <<request, response>>

\* Lines 160-174: the triviality check.
Start ==
    /\ pc = "start"
    /\ IF is_trivial(transcript)
       THEN /\ result' = trivial_notes(transcript, title, format_type)
            /\ trace' = Append(trace, "Trivial")
            /\ pc' = "done"
       ELSE /\ pc' = "provision"
            /\ UNCHANGED <<result, trace>>
    /\ UNCHANGED <<config, args, api_key, chunks, summaries, condensed, prompt, output,
                   pending, calls, failed, dedupe_vars, http_vars>>

\* Lines 176-178 with a key passed in: no lookup.
KeyGiven ==
    /\ pc = "provision"
    /\ api_key # None
    /\ pc' = "chunk"
    /\ UNCHANGED <<config, args, api_key, chunks, summaries, condensed, prompt, output,
                   result, pending, calls, failed, trace, dedupe_vars, http_vars>>

\* Line 177: get_api_key() returns a key.
KeyFound ==
    /\ pc = "provision"
    /\ api_key = None
    /\ calls' = Append(calls, [fn |-> "get_api_key"])
    /\ api_key' = Text(KEY)
    /\ pc' = "chunk"
    /\ UNCHANGED <<config, args, chunks, summaries, condensed, prompt, output,
                   result, pending, failed, trace, dedupe_vars, http_vars>>

\* Line 177: get_api_key() raises ValueError (line 44).
KeyMissing ==
    /\ pc = "provision"
    /\ api_key = None
    /\ calls' = Append(calls, [fn |-> "get_api_key"])
    /\ failed' = TRUE
    /\ pc' = "except"
    /\ UNCHANGED <<config, args, api_key, chunks, summaries, condensed, prompt, output,
                   result, pending, trace, dedupe_vars, http_vars>>

\* A chunking step that summarizes a single chunk too (len(chunks) >= 1).
ChunkAlwaysSummarize ==
    /\ pc = "chunk"
    /\ chunks' = _chunk_transcript(transcript)
    /\ condensed' = transcript
    /\ pc' = IF Len(chunks') >= 1 THEN "summarize" ELSE "prompt"
    /\ trace' = Append(trace, "Chunking")
    /\ UNCHANGED <<config, args, api_key, summaries, prompt, output, result, pending,
                   calls, failed, dedupe_vars, http_vars>>

\* Lines 181-183.
Chunk ==
    /\ pc = "chunk"
    /\ chunks' = _chunk_transcript(transcript)
    /\ condensed' = transcript
    /\ pc' = IF Len(chunks') > 1 THEN "summarize" ELSE "prompt"
    /\ trace' = Append(trace, "Chunking")
    /\ UNCHANGED <<config, args, api_key, summaries, prompt, output, result, pending,
                   calls, failed, dedupe_vars, http_vars>>

\* A loop that summarizes the chunks from the last to the first.
SummarizeIssueLastFirst ==
    /\ pc = "summarize"
    /\ pending = None
    /\ Len(summaries) < Len(chunks)
    /\ LET idx == Len(chunks) - Len(summaries)
           call == summarize_call(chunks[idx], idx, Len(chunks))
       IN /\ pending' = call
          /\ calls' = Append(calls, call)
          /\ trace' = IF summaries = <<>> THEN Append(trace, "Summarizing") ELSE trace
    /\ UNCHANGED <<config, args, api_key, pc, chunks, summaries, condensed, prompt, output,
                   result, failed, dedupe_vars, http_vars>>

\* Lines 184-187 and 132-146: the call for the next chunk is issued.
SummarizeIssue ==
    /\ pc = "summarize"
    /\ pending = None
    /\ Len(summaries) < Len(chunks)
    /\ LET idx == Len(summaries) + 1
           call == summarize_call(chunks[idx], idx, Len(chunks))
       IN /\ pending' = call
          /\ calls' = Append(calls, call)
          /\ trace' = IF idx = 1 THEN Append(trace, "Summarizing") ELSE trace
    /\ UNCHANGED <<config, args, api_key, pc, chunks, summaries, condensed, prompt, output,
                   result, failed, dedupe_vars, http_vars>>

\* Lines 147-150: the call returns; a content of None has no strip().
SummarizeReturn ==
    /\ pc = "summarize"
    /\ pending # None
    /\ \E content \in SummaryReplies :
          IF content = None
          THEN /\ pc' = "except"
               /\ UNCHANGED summaries
          ELSE /\ summaries' = Append(summaries, summary_of(content.text))
               /\ pc' = IF Len(summaries') = Len(chunks) THEN "condense" ELSE "summarize"
    /\ pending' = None
    /\ UNCHANGED <<config, args, api_key, chunks, condensed, prompt, output, result,
                   calls, failed, trace, dedupe_vars, http_vars>>

\* A failed chunk-summary call that is skipped: the chunk gets an empty
\* summary and the loop goes on.
SummarizeRaiseSkipped ==
    /\ pc = "summarize"
    /\ pending # None
    /\ pending' = None
    /\ failed' = TRUE
    /\ summaries' = Append(summaries, <<>>)
    /\ pc' = IF Len(summaries') = Len(chunks) THEN "condense" ELSE "summarize"
    /\ UNCHANGED <<config, args, api_key, chunks, condensed, prompt, output,
                   result, calls, trace, dedupe_vars, http_vars>>

\* Line 138: the call raises.
SummarizeRaise ==
    /\ pc = "summarize"
    /\ pending # None
    /\ pending' = None
    /\ failed' = TRUE
    /\ pc' = "except"
    /\ UNCHANGED <<config, args, api_key, chunks, summaries, condensed, prompt, output,
                   result, calls, trace, dedupe_vars, http_vars>>

\* Lines 188-196.
Condense ==
    /\ pc = "condense"
    /\ condensed' = condense(summaries, transcript)
    /\ pc' = "prompt"
    /\ UNCHANGED <<config, args, api_key, chunks, summaries, prompt, output, result,
                   pending, calls, failed, trace, dedupe_vars, http_vars>>

\* Lines 198-201.
Prompt ==
    /\ pc = "prompt"
    /\ prompt' = IF is_json(format_type) THEN build_json_prompt(condensed, title)
                                         ELSE build_prompt(condensed, title)
    /\ pc' = "generate"
    /\ trace' = Append(trace, "Prompting")
    /\ UNCHANGED <<config, args, api_key, chunks, summaries, condensed, output, result,
                   pending, calls, failed, dedupe_vars, http_vars>>

\* Lines 203-215: the final generation call is issued.
GenerateIssue ==
    /\ pc = "generate"
    /\ pending = None
    /\ pending' = [fn |-> "generate", prompt |-> prompt]
    /\ calls' = Append(calls, pending')
    /\ trace' = Append(trace, "Generating")
    /\ UNCHANGED <<config, args, api_key, pc, chunks, summaries, condensed, prompt, output,
                   result, failed, dedupe_vars, http_vars>>

\* Line 216: the call returns; a content of None has no strip().
GenerateReturn ==
    /\ pc = "generate"
    /\ pending # None
    /\ \E content \in FinalReplies :
          IF content = None
          THEN /\ pc' = "except"
               /\ UNCHANGED output
          ELSE /\ output' = strip_reply(content)
               /\ pc' = "reconcile"
    /\ pending' = None
    /\ UNCHANGED <<config, args, api_key, chunks, summaries, condensed, prompt, result,
                   calls, failed, trace, dedupe_vars, http_vars>>

\* A failed final call that is swallowed: the pipeline goes on with an empty reply.
GenerateRaiseSwallowed ==
    /\ pc = "generate"
    /\ pending # None
    /\ pending' = None
    /\ failed' = TRUE
    /\ output' = Text(<<>>)
    /\ pc' = "reconcile"
    /\ UNCHANGED <<config, args, api_key, chunks, summaries, condensed, prompt,
                   result, calls, trace, dedupe_vars, http_vars>>

\* Line 204: the call raises.
GenerateRaise ==
    /\ pc = "generate"
    /\ pending # None
    /\ pending' = None
    /\ failed' = TRUE
    /\ pc' = "except"
    /\ UNCHANGED <<config, args, api_key, chunks, summaries, condensed, prompt, output,
                   result, calls, trace, dedupe_vars, http_vars>>

\* Lines 218-249.
Reconcile ==
    /\ pc = "reconcile"
    /\ LET r == reconcile(output, transcript, title, format_type)
       IN IF r.raised
          THEN /\ pc' = "except"
               /\ trace' = Append(trace, "Reconciling")
               /\ UNCHANGED result
          ELSE /\ result' = r.value
               /\ pc' = "done"
               /\ trace' = trace \o <<"Reconciling", "Success">>
    /\ UNCHANGED <<config, args, api_key, chunks, summaries, condensed, prompt, output,
                   pending, calls, failed, dedupe_vars, http_vars>>

\* A handler that falls back on the working text instead of the transcript.
ExceptOnCondensed ==
    /\ pc = "except"
    /\ result' = generate_simple_notes(condensed, title, format_type)
    /\ trace' = Append(trace, "Fallback")
    /\ pc' = "done"
    /\ UNCHANGED <<config, args, api_key, chunks, summaries, condensed, prompt, output,
                   pending, calls, failed, dedupe_vars, http_vars>>

\* Lines 250-252: every Exception raised inside the try ends here.
Except ==
    /\ pc = "except"
    /\ result' = generate_simple_notes(transcript, title, format_type)
    /\ trace' = Append(trace, "Fallback")
    /\ pc' = "done"
    /\ UNCHANGED <<config, args, api_key, chunks, summaries, condensed, prompt, output,
                   pending, calls, failed, dedupe_vars, http_vars>>

Next ==
    \/ Start
    \/ KeyGiven
    \/ KeyFound
    \/ KeyMissing
    \/ Chunk
    \/ SummarizeIssue
    \/ SummarizeReturn
    \/ SummarizeRaise
    \/ Condense
    \/ Prompt
    \/ GenerateIssue
    \/ GenerateReturn
    \/ GenerateRaise
    \/ Reconcile
    \/ Except

Spec == Init /\ [][Next]_vars

(***************************************************************************)
(* Properties of generate_structured_notes                                 *)
(***************************************************************************)

Done == pc = "done"

\* The calls of one kind among those issued.
CallsOf(fn) == SelectSeq(calls, LAMBDA c : c.fn = fn)

\* Key provisioning was attempted and failed (the lookup is the last call issued).
KeyFailed == failed /\ calls # <<>> /\ calls[Len(calls)].fn = "get_api_key"

\* A field of the JSON object an invocation returned.
Field(key) == result.value.o[key]

\* C1: generate_structured_notes never raises to its caller, and once key
\* provisioning, a chunk-summary call or the final generation call has failed,
\* what it returns is generate_simple_notes(transcript, title, format_type) of
\* the original transcript.
C1_FailureGivesFallback ==
    /\ result # Raised
    /\ Done => result.kind \in {"text", "json"}
    /\ (Done /\ failed) => result = generate_simple_notes(transcript, title, format_type)

\* C1 witness: the final call failed after the transcript had been condensed.
C1_Witness ==
    /\ Done
    /\ failed
    /\ condensed # transcript
    /\ calls[Len(calls)].fn = "generate"

\* C2: a transcript whose stripped length is below 80 gets the 'too short'
\* placeholder (the string in markdown mode, the placeholder record in json
\* mode) and no external call is ever issued for it: no key lookup, no
\* chunk-summary call, no final generation call.
C2_TrivialIssuesNoCall ==
    Len(strip(transcript)) < MIN_TRANSCRIPT_CHARS =>
        /\ calls = <<>>
        /\ pending = None
        /\ Done =>
            IF format_type = "json"
            THEN /\ result.kind = "json"
                 /\ DOMAIN result.value.o =
                        {"title", "summary", "key_concepts", "important_details",
                         "study_questions", "transcript_character_count"}
                 /\ Field("title") = JStr(title)
                 /\ Field("summary") = JStr(TOO_SHORT)
                 /\ Field("key_concepts") = JList(<<>>)
                 /\ Field("important_details") = JList(<<>>)
                 /\ Field("study_questions") = JList(<<>>)
                 /\ Field("transcript_character_count") = JNum(Len(transcript))
            ELSE result = Text(TOO_SHORT)

\* C2 witness: a transcript of 80 characters or more that is trivial once stripped.
C2_Witness ==
    /\ Done
    /\ Len(transcript) >= MIN_TRANSCRIPT_CHARS
    /\ Len(strip(transcript)) < MIN_TRANSCRIPT_CHARS
    /\ format_type = "json"

\* C3 (as claimed): in every JSON-mode output, transcript_character_count is
\* the length of the original transcript, whatever the reply contains.
C3_CountIsOriginalLength ==
    (Done /\ is_json(format_type)) =>
        /\ result.kind = "json"
        /\ "transcript_character_count" \in DOMAIN result.value.o
        /\ Field("transcript_character_count") = JNum(Len(transcript))

\* The stripped lines of a text.
StrippedLines(text) ==
    LET ls == splitlines(text) IN [i \in 1..Len(ls) |-> strip(ls[i])]

\* The readings <<concept, reason>> of a stripped line as
\*     - **Concept** EmDash reason
\* (the closing ** is the first one after the opening **).
StarredReadings(l) ==
    IF l = <<>> \/ l[1] # "-" THEN {}
    ELSE UNION { UNION { { <<strip(SubSeq(l, p + 2, q - 1)), strip(SubSeq(l, r + 1, Len(l)))>> :
                           r \in { r \in (q + 2)..Len(l) :
                                     /\ l[r] = EmDash
                                     /\ \A k \in (q + 2)..(r - 1) : l[k] \in WS } } :
                         q \in { q \in (p + 2)..(Len(l) - 1) :
                                   /\ l[q] = "*" /\ l[q + 1] = "*"
                                   /\ \A k \in (p + 2)..(q - 1) : ~(l[k] = "*" /\ l[k + 1] = "*") } } :
                 p \in { p \in 2..(Len(l) - 1) :
                           /\ l[p] = "*" /\ l[p + 1] = "*"
                           /\ \A k \in 2..(p - 1) : l[k] \in WS } }

IsHeadingLine(l) == startswith(l, Chars("## ")) \/ startswith(l, Chars("# "))

\* The entries expected of the '- **Concept** EmDash reason' lines of a text:
\* those between the first line that starts with the Mindmap Bubbles heading
\* and the next heading line, in order; none when no line starts with it.
ExpectedStarred(text) ==
    LET ls == StrippedLines(text)
        heads == {i \in 1..Len(ls) : startswith(lower(ls[i]), Chars("## mindmap bubbles"))}
    IN IF heads = {} THEN <<>>
       ELSE LET h == CHOOSE i \in heads : \A j \in heads : i <= j
                stops == {j \in (h + 1)..Len(ls) : IsHeadingLine(ls[j])}
                e == IF stops = {} THEN Len(ls) + 1
                     ELSE CHOOSE i \in stops : \A j \in stops : i <= j
                numbered == [i \in 1..Len(ls) |-> <<i, ls[i]>>]
                inside == SelectSeq(numbered,
                              LAMBDA n : /\ h < n[1] /\ n[1] < e
                                         /\ \E cr \in StarredReadings(n[2]) : cr[1] # <<>>)
            IN [i \in 1..Len(inside) |->
                  LET cr == CHOOSE cr \in StarredReadings(inside[i][2]) : TRUE
                  IN JObj([concept |-> JStr(cr[1]), reason |-> JStr(cr[2]),
                           importance |-> JNum(3)])]

RECURSIVE IsSubseq(_, _)
IsSubseq(a, b) ==
    IF a = <<>> THEN TRUE
    ELSE IF b = <<>> THEN FALSE
    ELSE IF Head(a) = Head(b) THEN IsSubseq(Tail(a), Tail(b))
    ELSE IsSubseq(a, Tail(b))

\* The final reply was text that json.loads rejected, in json mode.
ParseFailed == Done /\ is_json(format_type) /\ output # None /\ output.kind = "text"

ENTROPY_BUBBLE ==
    JObj([concept |-> JStr(Chars("Entropy")), reason |-> JStr(Chars("drives disorder")),
          importance |-> JNum(3)])
HEAT_BUBBLE ==
    JObj([concept |-> JStr(Chars("Heat")), reason |-> JStr(Chars("flows downhill")),
          importance |-> JNum(3)])

\* C4 (as claimed): the reply 'Here are your notes: ## Mindmap Bubbles\n-
\* **Entropy** EmDash drives disorder', which is not JSON, yields a record with
\* error = "JSON parsing failed", raw_output equal to the reply and
\* mindmap_bubbles = [{Entropy, drives disorder, 3}]: the heading counts also
\* when other text precedes it on its line.
C4_HeadingAfterPreamble ==
    (ParseFailed /\ output = REPLY_PREAMBLE) =>
        /\ Field("error") = JStr(JSON_PARSING_FAILED)
        /\ Field("raw_output") = JStr(REPLY_PREAMBLE.text)
        /\ Field("mindmap_bubbles") = JList(<<ENTROPY_BUBBLE>>)

\* C4 (amended): when the final reply in json mode is not parseable as JSON,
\* the output is a record with error = "JSON parsing failed", raw_output equal
\* to the stripped reply, and mindmap_bubbles holding, in order, an entry
\* {concept, reason, importance 3} for each '- **Concept** EmDash reason' line
\* between the first line that starts with the Mindmap Bubbles heading and the
\* next heading line (as long as fewer than 12 entries were collected); when
\* no line starts with the heading, as in the reply with the preamble,
\* mindmap_bubbles is empty.
C4_ParseFailureRecord ==
    ParseFailed =>
        /\ result.kind = "json"
        /\ DOMAIN result.value.o =
              {"title", "raw_output", "error", "transcript_character_count", "mindmap_bubbles"}
        /\ Field("error") = JStr(JSON_PARSING_FAILED)
        /\ Field("raw_output") = JStr(output.text)
        /\ Field("mindmap_bubbles").t = "list"
        /\ LET bubbles == Field("mindmap_bubbles").l
               expected == ExpectedStarred(output.text)
           IN /\ Len(bubbles) <= 12
              /\ Len(bubbles) < 12 => IsSubseq(expected, bubbles)
              /\ (\A l \in {StrippedLines(output.text)[i] : i \in 1..Len(StrippedLines(output.text))} :
                     ~startswith(lower(l), Chars("## mindmap bubbles")))
                  => bubbles = <<>>
        /\ output = REPLY_PREAMBLE => Field("mindmap_bubbles") = JList(<<>>)

\* C4 witness: a markdown reply whose heading starts its line gave two bubbles.
C4_Witness ==
    /\ ParseFailed
    /\ output = strip_reply(REPLY_MARKDOWN)
    /\ output # REPLY_MARKDOWN
    /\ Field("mindmap_bubbles") = JList(<<ENTROPY_BUBBLE, HEAT_BUBBLE>>)
    /\ ExpectedStarred(output.text) = <<ENTROPY_BUBBLE>>

\* Every value stored under the key "importance" anywhere inside a JSON value.
RECURSIVE importance_values(_)
importance_values(v) ==
    CASE v.t = "list" -> UNION {importance_values(v.l[i]) : i \in 1..Len(v.l)}
      [] v.t = "obj" ->
            (IF "importance" \in DOMAIN v.o THEN {v.o["importance"]} ELSE {})
            \cup UNION {importance_values(v.o[k]) : k \in DOMAIN v.o}
      [] OTHER -> {}

\* The final reply parsed as a JSON object, in json mode, and was returned.
ParsedObject ==
    /\ Done
    /\ is_json(format_type)
    /\ output # None
    /\ output.kind = "json"
    /\ output.value.t = "obj"

\* C5 (as claimed): in every json-mode output built from a reply that parses,
\* every importance value found inside mindmap_bubbles is an integer in 1..5,
\* for every element and every shape the reply gives to mindmap_bubbles.
C5_ImportanceClamped ==
    ParsedObject =>
        \A imp \in importance_values(Field("mindmap_bubbles")) :
            /\ imp.t = "num"
            /\ MIN_IMPORTANCE <= imp.n
            /\ imp.n <= MAX_IMPORTANCE

\* A non-trivial transcript that fits in one chunk.
FitsOneChunk == ~is_trivial(transcript) /\ Len(transcript) <= CHUNK_CHAR_LIMIT

\* C7 (as claimed): for every non-trivial transcript of at most the chunk
\* limit, exactly one chunk equal to the transcript is produced,
\* _summarize_chunk is never invoked, the prompt embeds the untouched
\* transcript and exactly one text-generation call is issued.
C7_OneChunkOneCall ==
    (Done /\ FitsOneChunk) =>
        /\ chunks = <<transcript>>
        /\ CallsOf("summarize") = <<>>
        /\ prompt # None
        /\ prompt.transcript = transcript
        /\ Len(CallsOf("generate")) = 1

\* C7 (amended): for every non-trivial transcript of at most the chunk limit,
\* _summarize_chunk is never invoked; when key provisioning succeeds, exactly
\* one chunk equal to the transcript is produced, the prompt embeds the
\* untouched transcript and exactly one text-generation call (the final
\* generation) is issued, with that prompt; when key provisioning fails,
\* nothing is chunked, no prompt is built and no text-generation call is issued.
C7_OneChunkOneCallIfKey ==
    FitsOneChunk =>
        /\ CallsOf("summarize") = <<>>
        /\ summaries = <<>>
        /\ Len(CallsOf("generate")) <= 1
        /\ Done =>
            IF KeyFailed
            THEN /\ chunks = <<>>
                 /\ prompt = None
                 /\ CallsOf("generate") = <<>>
            ELSE /\ chunks = <<transcript>>
                 /\ condensed = transcript
                 /\ prompt # None
                 /\ prompt.transcript = transcript
                 /\ CallsOf("generate") = <<[fn |-> "generate", prompt |-> prompt]>>

\* C7 witness: a transcript of exactly the chunk limit went through with one call.
C7_Witness ==
    /\ Done
    /\ Len(transcript) = CHUNK_CHAR_LIMIT
    /\ ~failed
    /\ chunks = <<transcript>>
    /\ Len(CallsOf("generate")) = 1
    /\ trace[Len(trace)] = "Success"

Terminal == {"Trivial", "Success", "Fallback"}

\* The place of a non-terminal state in the order of the pipeline.
Rank(s) ==
    CASE s = "Chunking" -> 1
      [] s = "Summarizing" -> 2
      [] s = "Prompting" -> 3
      [] s = "Generating" -> 4
      [] s = "Reconciling" -> 5

\* An invocation that has not ended has a step to take: between two external
\* calls the next statement runs, a call in flight returns or fails, and the
\* loop over the chunks is only waited in while a chunk is left to summarize.
CanStep ==
    \/ pc \in {"start", "provision", "chunk", "condense", "prompt", "generate",
               "reconcile", "except"}
    \/ pc = "summarize" /\ (pending # None \/ Len(summaries) < Len(chunks))

\* C8: an invocation ends in exactly one of Trivial, Success and Fallback (and,
\* as long as it has not ended, it can take a step whenever the external call
\* in flight returns or fails); the non-terminal states are visited only in the
\* order Chunking, Summarizing, Prompting, Generating, Reconciling; Summarizing
\* is visited only when more than one chunk was produced; Fallback is never
\* reached from Trivial, and Success never after an external call has failed.
C8_StateOrder ==
    /\ Done \/ CanStep
    /\ Done <=> (trace # <<>> /\ trace[Len(trace)] \in Terminal)
    /\ \A i \in 1..(Len(trace) - 1) : trace[i] \notin Terminal
    /\ \A i, j \in 1..Len(trace) :
          (i < j /\ trace[i] \notin Terminal /\ trace[j] \notin Terminal)
              => Rank(trace[i]) < Rank(trace[j])
    /\ (\E i \in 1..Len(trace) : trace[i] = "Summarizing") => Len(chunks) > 1
    /\ (\E i \in 1..Len(trace) : trace[i] = "Trivial") => trace = <<"Trivial">>
    /\ \A i \in 1..Len(trace) :
          trace[i] = "Success" => (~failed /\ i > 1 /\ trace[i - 1] = "Reconciling")
    /\ failed => \A i \in 1..Len(trace) : trace[i] # "Success"

\* C8 witness: a run through every state of the pipeline, in order.
C8_Witness ==
    /\ Done
    /\ trace = <<"Chunking", "Summarizing", "Prompting", "Generating", "Reconciling", "Success">>

(***************************************************************************)
(* _chunk_transcript on its own (notes.py:107-116)                         *)
(***************************************************************************)

\* The largest chunk limit, and the longest transcript, the chunker is given.
ChunkLimitBound == 4
TranscriptBound == 13

\* The settings are what int() made of the environment: any integer for
\* NOTES_MAX_CHUNKS, a negative one included.
InitChunk ==
    /\ CHUNK_CHAR_LIMIT \in 1..ChunkLimitBound
    /\ MAX_CHUNKS \in -1..MaxChunksSetting
    /\ transcript \in {Lecture(n) : n \in 0..TranscriptBound}
    /\ title \in Titles
    /\ format_type = "markdown"
    /\ api_key = None
    /\ pc = "chunker"
    /\ Idle

\* Lines 107-116: one call of _chunk_transcript(transcript).
ChunkOnly ==
    /\ pc = "chunker"
    /\ chunks' = _chunk_transcript(transcript)
    /\ pc' = "chunked"
    /\ UNCHANGED <<config, args, api_key, summaries, condensed, prompt, output, result,
                   pending, calls, failed, trace, dedupe_vars, http_vars>>

NextChunk == ChunkOnly

SpecChunk == InitChunk /\ [][NextChunk]_vars

\* ceil(n / d) for d > 0
CeilDiv(n, d) == (n + d - 1) \div d

\* What the chunks share beyond their number: all but the last have exactly
\* CHUNK_CHAR_LIMIT characters, none is empty, and together, in order, they are
\* a prefix of the transcript.
ChunksArePrefixSlices ==
    /\ \A i \in 1..(Len(chunks) - 1) : Len(chunks[i]) = CHUNK_CHAR_LIMIT
    /\ \A i \in 1..Len(chunks) : chunks[i] # <<>> /\ Len(chunks[i]) <= CHUNK_CHAR_LIMIT
    /\ Concat(chunks) = Prefix(transcript, Len(Concat(chunks)))

\* C6 (as claimed): for a transcript longer than the chunk limit and every
\* max-chunk setting, _chunk_transcript returns exactly
\* min(ceil(length/limit), maxChunks) chunks, all but the last of limit
\* characters, none empty, concatenating to a prefix of the transcript.
C6_ChunkCountIsMin ==
    (pc = "chunked" /\ Len(transcript) > CHUNK_CHAR_LIMIT) =>
        /\ Len(chunks) = Min2(CeilDiv(Len(transcript), CHUNK_CHAR_LIMIT), MAX_CHUNKS)
        /\ ChunksArePrefixSlices

\* C6 (amended): for a chunk limit of at least 1 and a transcript longer than
\* it, _chunk_transcript returns min(ceil(length/limit), maxChunks) chunks when
\* the max-chunk setting is zero or more and no chunk at all when it is
\* negative; all but the last chunk have limit characters, none is empty (also
\* when the length is an exact multiple of the limit), and the chunks
\* concatenated in order are a prefix of the transcript.
C6_ChunkCountIsClampedMin ==
    (pc = "chunked" /\ Len(transcript) > CHUNK_CHAR_LIMIT) =>
        /\ Len(chunks) =
              Max2(0, Min2(CeilDiv(Len(transcript), CHUNK_CHAR_LIMIT), MAX_CHUNKS))
        /\ ChunksArePrefixSlices

\* C6 witness: a transcript of exactly three limits, chunked below the cap.
C6_Witness ==
    /\ pc = "chunked"
    /\ CHUNK_CHAR_LIMIT > 1
    /\ Len(transcript) = 3 * CHUNK_CHAR_LIMIT
    /\ MAX_CHUNKS >= 3
    /\ Len(chunks) = 3
    /\ Concat(chunks) = transcript

(***************************************************************************)
(* _dedupe_lines on its own (notes.py:118-127)                             *)
(***************************************************************************)

\* The longest list of bullets _dedupe_lines is given.
MaxLines == 3

\* A line as long as the dedupe key, to which a different tail can be added.
LONG_LINE == Lecture(DEDUPE_KEY_CHARS)

Bullets ==
    { Chars("Entropy rises"),
      Chars("entropy  RISES"),
      Chars(" Heat flows "),
      <<>>,
      Chars("  \t"),
      LONG_LINE \o Chars("a"),
      LONG_LINE \o Chars("b") }

BulletLists == UNION { [1..n -> Bullets] : n \in 0..MaxLines }

InitDedupe ==
    /\ CHUNK_CHAR_LIMIT = ChunkLimitSetting
    /\ MAX_CHUNKS = MaxChunksSetting
    /\ transcript = <<>>
    /\ title \in Titles
    /\ format_type = "markdown"
    /\ api_key = None
    /\ pc = "dedupe"
    /\ chunks = <<>>
    /\ summaries = <<>>
    /\ condensed = <<>>
    /\ prompt = None
    /\ output = None
    /\ result = None
    /\ pending = None
    /\ calls = <<>>
    /\ failed = FALSE
    /\ trace = <<>>
    /\ lines \in BulletLists
    /\ once = <<>>
    /\ twice = <<>>
    /\ request = None
    /\ response = None

\* _dedupe_lines(lines)
DedupeOnce ==
    /\ pc = "dedupe"
    /\ once' = _dedupe_lines(lines)
    /\ pc' = "deduped"
    /\ UNCHANGED <<config, args, api_key, chunks, summaries, condensed, prompt, output,
                   result, pending, calls, failed, trace, lines, twice, http_vars>>

\* _dedupe_lines applied to its own output
DedupeTwice ==
    /\ pc = "deduped"
    /\ twice' = _dedupe_lines(once)
    /\ pc' = "rededuped"
    /\ UNCHANGED <<config, args, api_key, chunks, summaries, condensed, prompt, output,
                   result, pending, calls, failed, trace, lines, once, http_vars>>

NextDedupe ==
    \/ DedupeOnce
    \/ DedupeTwice

SpecDedupe == InitDedupe /\ [][NextDedupe]_vars

\* C9: _dedupe_lines is idempotent: applied to its own output it returns that
\* output unchanged, the same elements in the same order.
C9_DedupeIdempotent == pc = "rededuped" => twice = once

\* C9 witness: a list from which the first pass removed a line whose key had
\* been seen (spelt differently) and kept two lines.
C9_Witness ==
    /\ pc = "rededuped"
    /\ Len(lines) = 3
    /\ Len(once) = 2
    /\ \E i, j \in 1..Len(lines) :
          /\ i < j
          /\ lines[i] # lines[j]
          /\ norm_key(lines[i]) = norm_key(lines[j])
          /\ norm_key(lines[i]) # <<>>

(***************************************************************************)
(* generate_simple_notes on its own (notes.py:255-290)                     *)
(***************************************************************************)

\* The transcripts given to generate_simple_notes: the first SimpleStep * k
\* characters of the repeated lecture, for k up to SimpleSteps.
SimpleStep == 66
SimpleSteps == 30

SimpleTitles == {Chars("Intro"), Chars("Heat and work")}

InitSimple ==
    /\ CHUNK_CHAR_LIMIT = ChunkLimitSetting
    /\ MAX_CHUNKS = MaxChunksSetting
    /\ transcript \in {Lecture(SimpleStep * k) : k \in 0..SimpleSteps}
    /\ title \in SimpleTitles
    /\ format_type \in Formats
    /\ api_key = None
    /\ pc = "simple"
    /\ Idle

\* Lines 255-290: one call of generate_simple_notes.
SimpleNotes ==
    /\ pc = "simple"
    /\ result' = generate_simple_notes(transcript, title, format_type)
    /\ pc' = "noted"
    /\ UNCHANGED <<config, args, api_key, chunks, summaries, condensed, prompt, output,
                   pending, calls, failed, trace, dedupe_vars, http_vars>>

NextSimple == SimpleNotes

SpecSimple == InitSimple /\ [][NextSimple]_vars

\* The positions at which a pseudo-sentence of t ends: every character of
\* `breaks`, and the last character.
EndsOf(t, breaks) == {i \in 1..Len(t) : t[i] \in breaks \/ i = Len(t)}

\* The trimmed pseudo-sentence of t that ends at e.
PieceAt(t, ends, e) ==
    LET before == {j \in ends : j < e}
        start == IF before = {} THEN 1
                 ELSE 1 + CHOOSE j \in before : \A k \in before : k <= j
    IN strip(SubSeq(t, start, e))

\* The key points of t when its pseudo-sentences end at the characters of
\* `breaks`: of the trimmed pseudo-sentences longer than 40 characters, in
\* order, the 1st, 4th, 7th, ..., ten at most.
KeyPointsBy(t, breaks) ==
    LET ends == EndsOf(t, breaks)
        long == {e \in ends : Len(PieceAt(t, ends, e)) > MIN_SENTENCE_CHARS}
        taken == {e \in long :
                    LET rank == Cardinality({j \in long : j < e})
                    IN rank % KEY_POINT_STRIDE = 0
                       /\ rank \div KEY_POINT_STRIDE < MAX_KEY_POINTS}
    IN [k \in 1..Cardinality(taken) |->
           PieceAt(t, ends,
                   CHOOSE e \in taken : Cardinality({j \in taken : j < e}) = k - 1)]

\* The markdown document that lists `points` as the key concepts of t.
SimpleDocument(ttl, points, t) ==
    Chars("# ") \o ttl \o Chars("\n## Summary\n") \o FALLBACK_SUMMARY
    \o Chars("\n## Key Concepts")
    \o Concat([k \in 1..Len(points) |-> Chars("\n- ") \o points[k]])
    \o Chars("\n\n## Full Transcript\n") \o t

\* C10 (as claimed): in markdown mode generate_simple_notes returns the
\* document whose '## Key Concepts' bullets are the key points of the
\* transcript split into pseudo-sentences on period boundaries: those longer
\* than 40 characters, every third one in order, at most 10.
C10_KeyPointsSplitOnPeriods ==
    (pc = "noted" /\ format_type = "markdown") =>
        result = Text(SimpleDocument(title, KeyPointsBy(transcript, {"."}), transcript))

\* C10 (amended): in markdown mode generate_simple_notes returns the lines
\* '# <title>', '## Summary', 'Fallback notes (AI unavailable).',
\* '## Key Concepts', one '- <key point>' line per key point, an empty line,
\* '## Full Transcript' and the transcript, where the pseudo-sentences end at
\* every period and at every line break, are trimmed, only those longer than
\* 40 characters are kept, and of these every third one (1st, 4th, 7th, ...)
\* is taken in order, at most 10; the output is a function of transcript,
\* title and format.
C10_KeyPointsSplitOnPeriodsAndLines ==
    (pc = "noted" /\ format_type = "markdown") =>
        result = Text(SimpleDocument(title, KeyPointsBy(transcript, {".", "\n"}),
                                     transcript))

\* C10 witness: a transcript with a line break inside a sentence and more
\* than thirty long pseudo-sentences, so that the cap of ten key points cuts.
C10_Witness ==
    /\ pc = "noted"
    /\ format_type = "markdown"
    /\ \E i \in 1..Len(transcript) : transcript[i] = "\n"
    /\ Len(sentences_of(transcript)) > KEY_POINT_STRIDE * MAX_KEY_POINTS
    /\ Len(key_points_of(transcript)) = MAX_KEY_POINTS
    /\ KeyPointsBy(transcript, {"."}) # KeyPointsBy(transcript, {".", "\n"})

(***************************************************************************)
(* The HTTP handlers (app.py)                                              *)
(***************************************************************************)

\* p in s
Contains(s, p) == FindFrom(s, p, 1) # 0

\* jsonify(body), status
Response(status, body) == [status |-> status, body |-> body]

\* app.py:53
ALLOWED_EXTENSIONS ==
    { Chars(".mp3"), Chars(".mp4"), Chars(".wav"), Chars(".m4a"),
      Chars(".mpeg"), Chars(".mpga"), Chars(".webm") }

\* Path(filename).name: what follows the last "/".
path_name(filename) ==
    LET slashes == {i \in 1..Len(filename) : filename[i] = "/"}
    IN IF slashes = {} THEN filename
       ELSE Suffix(filename, CHOOSE i \in slashes : \A j \in slashes : j <= i)

\* Path(filename).suffix: the name from its last "." on, when that "." is
\* neither the first nor the last character of the name.
path_suffix(filename) ==
    LET name == path_name(filename)
        dots == {i \in 1..Len(name) : name[i] = "."}
        i == IF dots = {} THEN 0 ELSE CHOOSE d \in dots : \A j \in dots : j <= d
    IN IF 1 < i /\ i < Len(name) THEN Suffix(name, i - 1) ELSE <<>>

\* app.py:56-58
allowed_file(filename) == lower(path_suffix(filename)) \in ALLOWED_EXTENSIONS

MEBIBYTE == 1048576

\* f"{size / (1024 * 1024):.1f}": the size in MB to one decimal, a tie
\* rounded to the even digit (the quotient by a power of two is exact).
format_mb(size) ==
    LET q == (size * 10) \div MEBIBYTE
        r == (size * 10) % MEBIBYTE
        tenths == IF 2 * r > MEBIBYTE \/ (2 * r = MEBIBYTE /\ q % 2 = 1) THEN q + 1 ELSE q
    IN str_int(tenths \div 10) \o Chars(".") \o str_int(tenths % 10)

\* Line 181: file_size_mb is None when os.path.getsize raised (line 121).
size_part(size) ==
    IF size = None THEN <<>> ELSE Chars(" (") \o format_mb(size.bytes) \o Chars(" MB)")

\* The end (exclusive) of the longest run of digits of s that starts at i.
DigitRunEnd(s, i) ==
    LET stops == {k \in i..Len(s) : \A d \in 1..10 : Digit[d] # s[k]}
    IN IF stops = {} THEN Len(s) + 1 ELSE CHOOSE k \in stops : \A j \in stops : k <= j

\* ([0-9]+m[0-9]+s|[0-9]+s) matched at i, ignoring case: the text matched,
\* <<>> when there is no match.
MatchWait(s, i) ==
    LET a == DigitRunEnd(s, i)
    IN IF a = i \/ a > Len(s) THEN <<>>
       ELSE IF s[a] \in {"m", "M"}
       THEN LET b == DigitRunEnd(s, a + 1)
            IN IF b > a + 1 /\ b <= Len(s) /\ s[b] \in {"s", "S"}
               THEN SubSeq(s, i, b)
               ELSE <<>>
       ELSE IF s[a] \in {"s", "S"} THEN SubSeq(s, i, a)
       ELSE <<>>

TRY_AGAIN_IN == Chars("try again in ")

\* Lines 167-175: re.search(r"try again in (...)", msg, re.IGNORECASE), the
\* leftmost match.
wait_hint(msg) ==
    LET low == lower(msg)
        n == Len(TRY_AGAIN_IN)
        found == {p \in 1..(Len(msg) - n + 1) :
                     /\ SubSeq(low, p, p + n - 1) = TRY_AGAIN_IN
                     /\ MatchWait(msg, p + n) # <<>>}
    IN IF found = {} THEN <<>>
       ELSE Chars(" after ")
            \o MatchWait(msg, n + CHOOSE p \in found : \A j \in found : p <= j)

AUTH_MESSAGE == Chars("Groq authentication failed. Check GROQ_API_KEY.")
RATE_LIMIT_MESSAGE(hint) ==
    Chars("Groq rate limit reached for whisper-large-v3. Please retry") \o hint
    \o Chars(" or reduce audio length (split the file).")
PAYLOAD_MESSAGE(size) ==
    Chars("File upload failed") \o size_part(size)
    \o Chars(". Large files may timeout during upload. Try: 1) Compress the audio to ")
    \o Chars("reduce file size, 2) Convert to MP3 format, or 3) Split into smaller segments.")
MODEL_MESSAGE == Chars("Groq model name invalid. Using 'whisper-large-v3'.")
FILE_MESSAGE == Chars("Uploaded file could not be processed. Try a standard mp3/wav.")
GENERIC_MESSAGE == Chars("Something went wrong while transcribing. Please try again.")

\* Lines 163-188: the first marker found in str(e) decides the message.
friendly(msg, size) ==
    IF Contains(msg, Chars("401")) \/ Contains(msg, Chars("Unauthorized"))
    THEN AUTH_MESSAGE
    ELSE IF Contains(msg, Chars("429")) \/ Contains(lower(msg), Chars("rate limit"))
    THEN RATE_LIMIT_MESSAGE(wait_hint(msg))
    ELSE IF \/ Contains(msg, Chars("413"))
            \/ Contains(lower(msg), Chars("too large"))
            \/ Contains(lower(msg), Chars("request entity too large"))
    THEN PAYLOAD_MESSAGE(size)
    ELSE IF Contains(msg, Chars("model")) /\ Contains(msg, Chars("not"))
            /\ Contains(msg, Chars("found"))
    THEN MODEL_MESSAGE
    ELSE IF Contains(msg, Chars("file"))
            /\ (Contains(msg, Chars("not found")) \/ Contains(msg, Chars("invalid")))
    THEN FILE_MESSAGE
    ELSE GENERIC_MESSAGE

\* Line 190
transcribe_error(failure, size) ==
    Response(500, [error |-> friendly(failure.msg, size),
                   details |-> failure.err_type \o Chars(": ") \o failure.msg])

\* What groq_client.audio.transcriptions.create raised: the kind of failure,
\* the class of the exception and its str().
Failure(category, err_type, msg) ==
    [category |-> category, err_type |-> Chars(err_type), msg |-> Chars(msg)]

SttFailures ==
    { Failure("auth", "AuthenticationError", "Error code: 401 - Invalid API Key"),
      Failure("auth", "AuthenticationError", "Unauthorized"),
      Failure("rate_limit", "RateLimitError",
              "Error code: 429 - Rate limit reached. Please try again in 4m33s."),
      Failure("rate_limit", "RateLimitError", "Rate Limit exceeded, try again in 20S"),
      Failure("rate_limit", "RateLimitError",
              "Error code: 429 - Rate limit reached: Limit 7200, Used 7001, Requested 401. Please try again in 4m1s."),
      Failure("payload", "APIStatusError", "Error code: 413 - Request Entity Too Large"),
      Failure("payload", "APIStatusError", "file is too large"),
      Failure("payload", "APIStatusError",
              "Error code: 413 - Request Entity Too Large (request 429a)"),
      Failure("other", "APIConnectionError", "Connection error."),
      Failure("other", "InternalServerError", "Error code: 500 - no answer after 4130 ms"),
      Failure("other", "NotFoundError", "Error code: 404 - model whisper-v9 not found"),
      Failure("other", "BadRequestError", "Error code: 400 - file is invalid") }

\* The upload: None when the form has no 'file' part, else its filename and
\* the size os.path.getsize reports for the saved copy (None: it raised).
Upload(filename, size) == [filename |-> Chars(filename), size |-> size]

Filenames ==
    { "", "talk.mp3", "TALK.MP3", "talk.Webm", "talk.m4a", "talk.txt", "talk",
      ".mp3", "talk.mp3.exe", "mp3/talk", "talk.wave", "talk.mp3." }

\* 262144 bytes are a quarter of a MB, a tie of the one-decimal format.
FileSizes == {None} \cup {[bytes |-> n] : n \in {0, 262144, 786432, 5 * MEBIBYTE}}

TranscribeRequests ==
    {[route |-> "transcribe", file |-> None]}
    \cup {[route |-> "transcribe", file |-> Upload(f, size)] :
            f \in Filenames, size \in FileSizes}

Transcriptions == {Chars("Entropy measures disorder."), <<>>}

\* Lines 86-107: the response to an invalid upload, None for a valid one.
transcribe_rejection(file) ==
    IF file = None
    THEN Response(400, [error |-> Chars("No file provided")])
    ELSE IF file.filename = <<>>
    THEN Response(400, [error |-> Chars("No file selected")])
    ELSE IF ~allowed_file(file.filename)
    THEN Response(400, [error |-> Chars("File type not allowed. Supported: "),
                        supported |-> ALLOWED_EXTENSIONS])
    ELSE None

\* Lines 86-128: validation, then the speech-to-text call is issued.
TranscribeValidate ==
    /\ pc = "transcribe"
    /\ LET rejection == transcribe_rejection(request.file)
       IN IF rejection # None
          THEN /\ response' = rejection
               /\ pc' = "responded"
               /\ UNCHANGED <<pending, calls>>
          ELSE /\ pending' = [fn |-> "transcriptions.create",
                              model |-> Chars("whisper-large-v3")]
               /\ calls' = Append(calls, pending')
               /\ pc' = "stt"
               /\ UNCHANGED response
    /\ UNCHANGED <<config, args, api_key, chunks, summaries, condensed, prompt, output,
                   result, failed, trace, dedupe_vars, request>>

\* Lines 130-146: the call returned.
TranscribeReturn ==
    /\ pc = "stt"
    /\ \E text \in Transcriptions :
          /\ result' = Text(text)
          /\ response' = Response(200,
                 [status |-> Chars("success"),
                  filename |-> [secure_filename |-> request.file.filename],
                  transcription |-> text,
                  language |-> Chars("auto-detected")])
    /\ pending' = None
    /\ pc' = "responded"
    /\ UNCHANGED <<config, args, api_key, chunks, summaries, condensed, prompt, output,
                   calls, failed, trace, dedupe_vars, request>>

\* Lines 148-190: the call raised.
TranscribeRaise ==
    /\ pc = "stt"
    /\ \E failure \in SttFailures :
          /\ result' = [raised |-> failure]
          /\ response' = transcribe_error(failure, request.file.size)
    /\ pending' = None
    /\ failed' = TRUE
    /\ pc' = "responded"
    /\ UNCHANGED <<config, args, api_key, chunks, summaries, condensed, prompt, output,
                   calls, trace, dedupe_vars, request>>

\* What request.get_json() gives for a request without a JSON body: None, or
\* an HTTP exception, depending on the version of the framework.
NoBody == [t |-> "no body"]
UNSUPPORTED_MEDIA_TYPE == Chars("415 Unsupported Media Type")

\* bool(v) of a parsed JSON value
Truthy(v) ==
    CASE v.t = "null" -> FALSE
      [] v.t = "bool" -> v.b
      [] v.t = "num" -> v.n # 0
      [] v.t = "str" -> v.s # <<>>
      [] v.t = "list" -> v.l # <<>>
      [] v.t = "obj" -> DOMAIN v.o # {}

\* type(v).__name__ of a parsed JSON value
type_name(v) ==
    CASE v.t = "null" -> Chars("NoneType")
      [] v.t = "bool" -> Chars("bool")
      [] v.t = "num" -> Chars("int")
      [] v.t = "str" -> Chars("str")
      [] v.t = "list" -> Chars("list")
      [] v.t = "obj" -> Chars("dict")

\* str() of the AttributeError for v.attr
no_attribute(v, attr) ==
    Chars("'") \o type_name(v) \o Chars("' object has no attribute '") \o Chars(attr)
    \o Chars("'")

\* dict.get(key, default)
dict_get(o, key, default) == IF key \in DOMAIN o THEN o[key] ELSE default

\* Lines 259-265
notes_error(msg) == Response(500, [error |-> Chars("Note generation failed: ") \o msg])

\* Lines 223-234 and 259-265: the response to a body that is not passed on
\* to generate_structured_notes, None for one that is.
notes_rejection(data) ==
    IF ~Truthy(data)
    THEN Response(400, [error |-> Chars("Request body must be JSON")])
    ELSE IF data.t # "obj" THEN notes_error(no_attribute(data, "get"))
    ELSE LET transcript_ == dict_get(data.o, "transcript", JStr(<<>>))
             format_ == dict_get(data.o, "format", JStr(Chars("markdown")))
         IN IF ~Truthy(transcript_)
            THEN Response(400, [error |-> Chars("Transcript text is required")])
            ELSE IF transcript_.t # "str"
            THEN notes_error(no_attribute(transcript_, "strip"))
            ELSE IF strip(transcript_.s) = <<>>
            THEN Response(400, [error |-> Chars("Transcript text is required")])
            ELSE IF format_.t # "str"
            THEN notes_error(no_attribute(format_, "lower"))
            ELSE IF lower(format_.s) \notin {Chars("markdown"), Chars("json")}
            THEN Response(400, [error |-> Chars("Format must be 'markdown' or 'json'")])
            ELSE None

\* Lines 241-246: the arguments generate_structured_notes is called with.
notes_call(data) ==
    [fn |-> "generate_structured_notes",
     transcript |-> data.o["transcript"].s,
     title |-> dict_get(data.o, "title", JStr(Chars("Lecture Notes"))),
     format_type |-> lower(dict_get(data.o, "format", JStr(Chars("markdown"))).s),
     api_key |-> None]

\* Lines 250-257
notes_success(call, notes) ==
    Response(200, [status |-> Chars("success"),
                   title |-> call.title,
                   format |-> call.format_type,
                   notes |-> notes,
                   transcript_length |-> Len(call.transcript),
                   word_count |-> Len(split_ws(call.transcript))])

TranscriptValues ==
    { JStr(<<>>), JStr(Chars("  \n ")), JStr(Chars("Entropy measures disorder.")),
      JNull, JNum(0), JNum(5), JList(<<>>) }
TitleValues == { JStr(Chars("Intro")) }
FormatValues ==
    { JStr(Chars("markdown")), JStr(Chars("JSON")), JStr(Chars("xml")), JStr(<<>>),
      JNull, JNum(5) }

\* The objects over the keys transcript, title and format, each key absent
\* or holding one of its values.
Bodies ==
    { JObj(o) : o \in UNION { [keys -> TranscriptValues \cup TitleValues \cup FormatValues] :
                                keys \in SUBSET {"transcript", "title", "format"} } }

NotesBodies ==
    { NoBody, JNull, JBool(FALSE), JList(<<>>), JList(<<JNum(1)>>), JStr(Chars("notes")) }
    \cup { b \in Bodies :
              /\ "transcript" \in DOMAIN b.o => b.o["transcript"] \in TranscriptValues
              /\ "title" \in DOMAIN b.o => b.o["title"] \in TitleValues
              /\ "format" \in DOMAIN b.o => b.o["format"] \in FormatValues }

NotesRequests == {[route |-> "generate-notes", json |-> body] : body \in NotesBodies}

NotesResults == {Text(TOO_SHORT), Text(Chars("# Intro"))}

\* Lines 219-246 and 259-265: get_json, validation, then
\* generate_structured_notes is called.
NotesValidate ==
    /\ pc = "generate-notes"
    /\ \E raises \in BOOLEAN :
          LET rejection ==
                 IF request.json = NoBody
                 THEN (IF raises THEN notes_error(UNSUPPORTED_MEDIA_TYPE)
                                 ELSE notes_rejection(JNull))
                 ELSE notes_rejection(request.json)
          IN IF rejection # None
             THEN /\ response' = rejection
                  /\ pc' = "responded"
                  /\ UNCHANGED <<pending, calls>>
             ELSE /\ pending' = notes_call(request.json)
                  /\ calls' = Append(calls, pending')
                  /\ pc' = "notes"
                  /\ UNCHANGED response
    /\ UNCHANGED <<config, args, api_key, chunks, summaries, condensed, prompt, output,
                   result, failed, trace, dedupe_vars, request>>

\* Lines 248-257: generate_structured_notes returned (it does not raise).
NotesReturn ==
    /\ pc = "notes"
    /\ \E notes \in NotesResults :
          /\ result' = notes
          /\ response' = notes_success(pending, notes.text)
    /\ pending' = None
    /\ pc' = "responded"
    /\ UNCHANGED <<config, args, api_key, chunks, summaries, condensed, prompt, output,
                   calls, failed, trace, dedupe_vars, request>>

InitApi ==
    /\ CHUNK_CHAR_LIMIT = ChunkLimitSetting
    /\ MAX_CHUNKS = MaxChunksSetting
    /\ transcript = <<>>
    /\ title \in Titles
    /\ format_type = "markdown"
    /\ api_key = None
    /\ chunks = <<>>
    /\ summaries = <<>>
    /\ condensed = <<>>
    /\ prompt = None
    /\ output = None
    /\ result = None
    /\ pending = None
    /\ calls = <<>>
    /\ failed = FALSE
    /\ trace = <<>>
    /\ lines = <<>>
    /\ once = <<>>
    /\ twice = <<>>
    /\ request \in TranscribeRequests \cup NotesRequests
    /\ pc = request.route
    /\ response = None

NextApi ==
    \/ TranscribeValidate
    \/ TranscribeReturn
    \/ TranscribeRaise
    \/ NotesValidate
    \/ NotesReturn

SpecApi == InitApi /\ [][NextApi]_vars

Responded == pc = "responded"

\* The speech-to-text call of a /transcribe request failed and was answered.
SttFailed == Responded /\ request.route = "transcribe" /\ failed

\* C11 (as claimed): a speech-to-text failure in /transcribe gives a 500
\* response whose message is decided by the kind of failure: the
\* authentication message for an authentication failure, the rate-limit
\* message for a rate-limit failure, the payload message for a payload that
\* is too large, and for any other failure the generic message (or the
\* message for an unknown model or a rejected file), whatever other marker
\* text the error message contains.
C11_CategoryDecidesMessage ==
    SttFailed =>
        /\ response.status = 500
        /\ LET category == result.raised.category
               error == response.body.error
           IN CASE category = "auth" -> error = AUTH_MESSAGE
                [] category = "rate_limit" ->
                      error = RATE_LIMIT_MESSAGE(wait_hint(result.raised.msg))
                [] category = "payload" -> error = PAYLOAD_MESSAGE(request.file.size)
                [] category = "other" ->
                      error \in {GENERIC_MESSAGE, MODEL_MESSAGE, FILE_MESSAGE}

\* The body of a /generate-notes request is one the claim calls invalid: no
\* body, a transcript that is absent, empty or only whitespace, or a format
\* that is neither 'markdown' nor 'json'.
InvalidNotesBody(body) ==
    \/ body = NoBody
    \/ /\ body.t = "obj"
       /\ \/ "transcript" \notin DOMAIN body.o
          \/ /\ body.o["transcript"].t = "str"
             /\ strip(body.o["transcript"].s) = <<>>
          \/ /\ "format" \in DOMAIN body.o
             /\ ~(/\ body.o["format"].t = "str"
                  /\ lower(body.o["format"].s) \in {Chars("markdown"), Chars("json")})

\* The upload of a /transcribe request is one the claim calls invalid: no
\* file, an empty filename, or an extension that is not accepted.
InvalidUpload(file) ==
    \/ file = None
    \/ file.filename = <<>>
    \/ lower(path_suffix(file.filename)) \notin ALLOWED_EXTENSIONS

InvalidRequest ==
    IF request.route = "transcribe"
    THEN InvalidUpload(request.file)
    ELSE InvalidNotesBody(request.json)

\* C12 (as claimed): invalid input is answered with 400 and without an
\* external call: /generate-notes for a missing body, a transcript that is
\* empty or only whitespace, or a format that is neither 'markdown' nor
\* 'json'; /transcribe for a missing file, an empty filename, or an
\* extension that is not accepted.
C12_InvalidInputGets400 ==
    InvalidRequest =>
        /\ calls = <<>>
        /\ pending = None
        /\ Responded => response.status = 400

(***************************************************************************)
(* The external calls of generate_structured_notes                         *)
(***************************************************************************)

\* The text-generation calls issued so far, in order.
TextCalls == SelectSeq(calls, LAMBDA c : c.fn \in {"summarize", "generate"})

\* The text-generation calls that have been answered so far.
Answered == Len(summaries) + (IF output # None THEN 1 ELSE 0)

\* Nothing has failed: no call raised and no reply was unusable.
NoFailure == ~failed /\ pc # "except" /\ (Done => trace[Len(trace)] = "Success")

\* C13: in a run that produces N > 1 chunks and has no failure, the calls are
\* issued one at a time in the order summarize(chunk 1), ..., summarize(chunk
\* N), then exactly one final generation call: a call is issued only when
\* every earlier one has been answered, and a finished run has issued N + 1
\* text-generation calls.
C13_CallsInChunkOrder ==
    (Len(chunks) > 1 /\ NoFailure) =>
        LET N == Len(chunks)
        IN /\ Len(TextCalls) <= N + 1
           /\ \A i \in 1..Len(TextCalls) :
                 IF i <= N
                 THEN TextCalls[i] = summarize_call(chunks[i], i, N)
                 ELSE TextCalls[i] = [fn |-> "generate", prompt |-> prompt]
           /\ IF pending = None
              THEN Answered = Len(TextCalls)
              ELSE /\ pending = TextCalls[Len(TextCalls)]
                   /\ Answered = Len(TextCalls) - 1
           /\ Done => Len(TextCalls) = N + 1

\* C13 witness: a run over three chunks that ended in Success after four calls.
C13_Witness ==
    /\ Done
    /\ NoFailure
    /\ Len(chunks) = 3
    /\ Len(TextCalls) = 4
    /\ TextCalls[4].fn = "generate"

\* The summarization call for one of several chunks has failed.
SummarizeFailed == failed /\ Len(chunks) > 1 /\ Len(summaries) < Len(chunks)

\* C14: when the summarization call for chunk k of N fails, the calls issued
\* are summarize(chunk 1), ..., summarize(chunk k) and no other: chunk k is
\* not retried, chunks k+1..N are not summarized, no final generation call
\* is issued; and the invocation returns generate_simple_notes of the
\* original transcript.
C14_FailedChunkEndsCalls ==
    SummarizeFailed =>
        LET N == Len(chunks)
            k == Len(summaries) + 1
        IN /\ TextCalls = [i \in 1..k |-> summarize_call(chunks[i], i, N)]
           /\ pending = None
           /\ prompt = None
           /\ pc \in {"except", "done"}
           /\ Done => result = generate_simple_notes(transcript, title, format_type)

\* C14 witness: the call for chunk 2 of 3 failed and the fallback was returned.
C14_Witness ==
    /\ Done
    /\ SummarizeFailed
    /\ Len(chunks) = 3
    /\ Len(summaries) = 1
    /\ trace[Len(trace)] = "Fallback"
    /\ condensed = transcript

(***************************************************************************)
(* The record returned for a reply that parses (notes.py:218-235)          *)
(***************************************************************************)

\* A JSON value without the importance entries of the objects inside it.
RECURSIVE SansImportance(_)
SansImportance(v) ==
    CASE v.t = "list" -> JList([i \in 1..Len(v.l) |-> SansImportance(v.l[i])])
      [] v.t = "obj" -> JObj([k \in DOMAIN v.o \ {"importance"} |-> SansImportance(v.o[k])])
      [] OTHER -> v

\* The field `key` of the returned record is the reply's when the reply has
\* it, and `default` when it has not.
DefaultedOnlyIfMissing(key, default) ==
    /\ key \in DOMAIN result.value.o
    /\ Field(key) = IF key \in DOMAIN output.value.o THEN output.value.o[key] ELSE default

\* C15: when the final reply in json mode parses as a JSON object, the
\* returned record has the reply's fields and title,
\* transcript_character_count and mindmap_bubbles; title and
\* transcript_character_count are the reply's when it has them and else the
\* input title and the original transcript's length; mindmap_bubbles is the
\* empty list when the reply lacks it and else the reply's, apart from
\* importance values; every other field is the reply's, unchanged.
C15_DefaultsOnlyWhenMissing ==
    ParsedObject =>
        LET reply == output.value.o
        IN /\ result.kind = "json"
           /\ result.value.t = "obj"
           /\ DOMAIN result.value.o =
                 DOMAIN reply \cup {"title", "transcript_character_count", "mindmap_bubbles"}
           /\ DefaultedOnlyIfMissing("title", JStr(title))
           /\ DefaultedOnlyIfMissing("transcript_character_count", JNum(Len(transcript)))
           /\ IF "mindmap_bubbles" \in DOMAIN reply
              THEN SansImportance(Field("mindmap_bubbles"))
                      = SansImportance(reply["mindmap_bubbles"])
              ELSE Field("mindmap_bubbles") = JList(<<>>)
           /\ \A k \in DOMAIN reply \ {"mindmap_bubbles"} : Field(k) = reply[k]

\* C15 witness: a reply with a title, a count and a summary of its own and
\* bubbles whose importance had to be rewritten.
C15_Witness ==
    /\ ParsedObject
    /\ output = REPLY_FULL
    /\ Field("title") # JStr(title)
    /\ Field("transcript_character_count") # JNum(Len(transcript))
    /\ Field("summary") = JStr(Chars("Heat and work."))
    /\ Field("mindmap_bubbles") # output.value.o["mindmap_bubbles"]

(***************************************************************************)
(* _dedupe_lines and the cross-chunk digest (notes.py:118-127, 188-196)    *)
(***************************************************************************)

\* The pipeline and _dedupe_lines on its own, side by side.
InitDigest == Init \/ InitDedupe

NextDigest ==
    \/ Next
    \/ NextDedupe

SpecDigest == InitDigest /\ [][NextDigest]_vars

\* The normalized key of a line: lowercased, every run of whitespace between
\* two words one space, whitespace at the ends dropped, cut at 200 characters.
CollapsedKey(line) ==
    LET l == lower(line)
        numbered == [i \in 1..Len(l) |-> <<i, IF l[i] \in WS THEN " " ELSE l[i]>>]
        kept == SelectSeq(numbered,
                    LAMBDA n : \/ l[n[1]] \notin WS
                               \/ /\ n[1] > 1
                                  /\ l[n[1] - 1] \notin WS
                                  /\ \E j \in (n[1] + 1)..Len(l) : l[j] \notin WS)
    IN Prefix([k \in 1..Len(kept) |-> kept[k][2]], DEDUPE_KEY_CHARS)

\* The lines of ls whose key is not empty and is carried by no earlier line.
FirstOfEachKey(ls) ==
    LET numbered == [i \in 1..Len(ls) |-> <<i, ls[i]>>]
        kept == SelectSeq(numbered,
                    LAMBDA n : /\ CollapsedKey(n[2]) # <<>>
                               /\ \A j \in 1..(n[1] - 1) :
                                     CollapsedKey(ls[j]) # CollapsedKey(n[2]))
    IN [k \in 1..Len(kept) |-> kept[k][2]]

\* The working text has been replaced by the digest of the chunk summaries.
Digested == Len(chunks) > 1 /\ Len(summaries) = Len(chunks) /\ pc \notin {"summarize", "condense"}

\* The bullets of the chunk summaries, in chunk order.
SummaryBullets ==
    Concat([i \in 1..Len(summaries) |->
              LET ls == split_char(summaries[i], "\n")
              IN IF summaries[i] = <<>> THEN <<>>
                 ELSE [j \in 1..Len(ls) |-> Suffix(ls[j], 2)]])

\* The bullets the digest lists after its first line.
DigestBullets ==
    LET rest == Tail(split_char(condensed, "\n"))
    IN IF rest = << <<>> >> THEN <<>> ELSE [j \in 1..Len(rest) |-> Suffix(rest[j], 2)]

\* C16: _dedupe_lines returns the subsequence of its input that keeps, for
\* each normalized key, only the first line carrying it and drops the lines
\* whose key is empty; and the cross-chunk digest lists the bullets of the
\* chunk summaries in chunk order, a bullet being left out only when a bullet
\* with the same key comes earlier in that order.
C16_FirstOfEachKeyKept ==
    /\ pc \in {"deduped", "rededuped"} => once = FirstOfEachKey(lines)
    /\ Digested =>
          /\ \A j \in 1..Len(SummaryBullets) : CollapsedKey(SummaryBullets[j]) # <<>>
          /\ DigestBullets = FirstOfEachKey(SummaryBullets)

\* C16 witness: a digest of three summaries from which a bullet of a later
\* chunk was left out, three bullets being kept.
C16_Witness ==
    /\ Digested
    /\ Len(chunks) = 3
    /\ Len(DigestBullets) = 3
    /\ Len(SummaryBullets) > 3
    /\ SummaryBullets[1] # SummaryBullets[Len(SummaryBullets)]

(***************************************************************************)
(* _extract_bubbles_from_text on its own (notes.py:293-340)                *)
(*                                                                         *)
(* The text is a reply of the generation call: two opening lines, a run of *)
(* bullet lines with distinct concepts, a closing line and a last line.    *)
(***************************************************************************)

LongRun == 13

\* The lines a reply can open with.
HeadLines ==
    {<<>>,
     Chars("## Mindmap Bubbles"),
     Chars("  ## MINDMAP bubbles (ranked)"),
     Chars("### Details"),
     Chars("## Summary"),
     Chars("# Title"),
     Chars("- Heat ") \o <<EmDash>> \o Chars(" flows"),
     Chars("-"),
     Chars("- **Open"),
     Chars("Notes: ## Mindmap Bubbles"),
     Chars("plain text")}

\* The lines that can follow the run of bullets, and the line after them.
ClosingLines == {<<>>, Chars("## Study Questions"), Chars("#### More")}
LastLines == {<<>>, Chars("  - late")}

ConceptLetters == Chars("ABCDEFGHIJKLMNOP")

\* The k-th bullet of the run, in the form the JSON prompt asks for.
RunLine(k) == Chars("- **") \o <<ConceptLetters[k]>> \o Chars("** ") \o <<EmDash>> \o Chars(" y")

RunLines(n) == [k \in 1..n |-> RunLine(k)]

BubbleTexts ==
    {join(Chars("\n"), <<first, second>> \o RunLines(n) \o <<closing, last>>) :
        first \in HeadLines, second \in HeadLines, n \in {0, LongRun - 1, LongRun},
        closing \in ClosingLines, last \in LastLines}

InitBubbles ==
    /\ CHUNK_CHAR_LIMIT = ChunkLimitSetting
    /\ MAX_CHUNKS = MaxChunksSetting
    /\ transcript = <<>>
    /\ title = <<>>
    /\ format_type = Chars("json")
    /\ api_key = None
    /\ pc = "extract"
    /\ chunks = <<>>
    /\ summaries = <<>>
    /\ condensed = <<>>
    /\ prompt = None
    /\ output \in {Text(text) : text \in BubbleTexts}
    /\ result = None
    /\ pending = None
    /\ calls = <<>>
    /\ failed = FALSE
    /\ trace = <<>>
    /\ lines = <<>>
    /\ once = <<>>
    /\ twice = <<>>
    /\ request = None
    /\ response = None

\* Line 238: bubbles = _extract_bubbles_from_text(output).
ExtractBubbles ==
    /\ pc = "extract"
    /\ result' = [bubbles |-> _extract_bubbles_from_text(output.text)]
    /\ pc' = "extracted"
    /\ UNCHANGED <<config, args, api_key, chunks, summaries, condensed, prompt, output,
                   pending, calls, failed, trace, dedupe_vars, http_vars>>

NextBubbles == ExtractBubbles

SpecBubbles == InitBubbles /\ [][NextBubbles]_vars

\* The lines of the text as the loop sees them (lines 297 and 301).
ReplyLines == StrippedLines(output.text)

\* The first 'Mindmap Bubbles' heading line, 0 when the text has none.
BubblesHeadingAt ==
    LET at == {i \in 1..Len(ReplyLines) : is_bubbles_heading(ReplyLines[i])}
    IN IF at = {} THEN 0 ELSE CHOOSE i \in at : \A j \in at : i <= j

\* The first heading line ('# ...' or '## ...', line 307) after the Mindmap
\* Bubbles heading line; one past the last line when there is none.
SectionEnd ==
    LET at == {i \in (BubblesHeadingAt + 1)..Len(ReplyLines) : IsHeadingLine(ReplyLines[i])}
    IN IF at = {} THEN Len(ReplyLines) + 1 ELSE CHOOSE i \in at : \A j \in at : i <= j

\* What the lines starting with '-' between the two heading lines read as,
\* in line order.
SectionBullets ==
    IF BubblesHeadingAt = 0 THEN <<>>
    ELSE LET section == SubSeq(ReplyLines, BubblesHeadingAt + 1, SectionEnd - 1)
             dashed == SelectSeq(section, LAMBDA l : startswith(l, <<"-">>))
         IN [i \in 1..Len(dashed) |->
                LET b == parse_bubble_line(dashed[i]) IN bubble(b.concept, b.reason)]

Extracted == pc = "extracted"

NonObjectReply ==
    /\ is_json(format_type)
    /\ output # None
    /\ output.kind = "json"
    /\ output.value.t \in {"list", "num", "str", "bool", "null"}

\* C18: when the final reply in JSON mode parses as JSON but is not an
\* object, generate_structured_notes does not raise and returns neither a
\* normalized record nor the 'JSON parsing failed' record: the error leaves
\* the inner try, the outer handler catches it, and the fallback output for
\* the original transcript is returned.
C18_NonObjectReplyFallsBack ==
    /\ (NonObjectReply /\ pc \in {"except", "done"}) =>
          /\ ~failed
          /\ trace[Len(trace) - (IF Done THEN 1 ELSE 0)] = "Reconciling"
    /\ (NonObjectReply /\ Done) =>
          /\ result # Raised
          /\ result = generate_simple_notes(transcript, title, format_type)
          /\ result # json_dumps(output.value)
          /\ "error" \notin DOMAIN result.value.o
          /\ "raw_output" \notin DOMAIN result.value.o
          /\ trace[Len(trace)] = "Fallback"

\* The reply was the JSON number 42 for a transcript of several chunks, and
\* the invocation has returned.
C18_Witness ==
    /\ NonObjectReply
    /\ Done
    /\ output = REPLY_NUMBER
    /\ Len(chunks) > 1
    /\ result.kind = "json"

=============================================================================
